---- MODULE Spec2Model ----
(***************************************************************************)
(* MISP IOC retrieval (misp_to_json.py) and the MCP tool surface built on  *)
(* it (misp_mcp_server.py).                                                *)
(*                                                                         *)
(* Python values are tagged records:                                       *)
(*   none, str (a sequence of one-character strings), int, list, dict (a   *)
(*   sequence of key/value pairs in insertion order), obj (a value the     *)
(*   JSON encoder does not know, such as a datetime, whose str() is r) and *)
(*   event (an event object exposing `attributes`, each given by the dict  *)
(*   its to_dict() returns).                                               *)
(* A string is the sequence of its pieces, in order.  Strings that come    *)
(* from the remote source and the literals the code compares them with are *)
(* split into single characters; the texts the code only builds (exception *)
(* and status messages, the keys of the dicts it returns) are kept as      *)
(* whole pieces, and an f-string is the concatenation of its pieces.       *)
(***************************************************************************)
EXTENDS Integers, Sequences, FiniteSets, TLC

VARIABLES
    env,       \* the configuration: whether MISP_URL and MISP_API_KEY are set
    pc,        \* where the current invocation stands
    tool,      \* the operation invoked
    arg,       \* its argument (ioc_type, filename, or the iocs given to filter_results)
    queries,   \* searches issued to the remote source by the current invocation
    response,  \* what misp.search returned or raised in the current invocation
    normalized, \* what get_recent_iocs did inside the current invocation
    result,    \* how the invocation ended: return value, exception or exit
    written    \* the file the current invocation wrote

vars == <<env, pc, tool, arg, queries, response, normalized, result, written>>

----------------------------------------------------------------------------
(* Python values *)

PyNone == [k |-> "none"]
PyStr(s) == [k |-> "str", s |-> s]
PyInt(n) == [k |-> "int", n |-> n]
PyList(xs) == [k |-> "list", items |-> xs]
PyDict(ps) == [k |-> "dict", pairs |-> ps]
PyObj(r) == [k |-> "obj", r |-> r]
EventObj(attrs) == [k |-> "event", attributes |-> attrs]
Pair(key, v) == [key |-> key, val |-> v]

IsStr(v) == v.k = "str"
IsList(v) == v.k = "list"
IsDict(v) == v.k = "dict"

(* key in d *)
HasKey(d, key) == \E i \in 1..Len(d.pairs) : d.pairs[i].key = key

(* d[key], for a key that is in d *)
Lookup(d, key) ==
    d.pairs[CHOOSE i \in 1..Len(d.pairs) : d.pairs[i].key = key].val

(* d.get(key, dflt) *)
Get(d, key, dflt) == IF HasKey(d, key) THEN Lookup(d, key) ELSE dflt

(* d[key] = v : replaces in place, or appends a new key *)
DictSet(d, key, v) ==
    IF HasKey(d, key)
    THEN PyDict([i \in 1..Len(d.pairs) |->
                   IF d.pairs[i].key = key THEN Pair(key, v) ELSE d.pairs[i]])
    ELSE PyDict(Append(d.pairs, Pair(key, v)))

(* bool(v) *)
Truthy(v) ==
    CASE v.k = "none" -> FALSE
      [] v.k = "str"  -> Len(v.s) > 0
      [] v.k = "int"  -> v.n # 0
      [] v.k = "list" -> Len(v.items) > 0
      [] v.k = "dict" -> Len(v.pairs) > 0
      [] OTHER        -> TRUE

(* type(v).__name__ *)
TypeName(v) ==
    CASE v.k = "none" -> "NoneType"
      [] v.k = "str"  -> "str"
      [] v.k = "int"  -> "int"
      [] v.k = "list" -> "list"
      [] v.k = "dict" -> "dict"
      [] v.k = "obj"  -> "datetime"
      [] OTHER        -> "MISPEvent"

----------------------------------------------------------------------------
(* Strings *)

Digit(d) == CASE d = 0 -> "0" [] d = 1 -> "1" [] d = 2 -> "2" [] d = 3 -> "3"
              [] d = 4 -> "4" [] d = 5 -> "5" [] d = 6 -> "6" [] d = 7 -> "7"
              [] d = 8 -> "8" [] OTHER -> "9"

RECURSIVE NatToStr(_)
NatToStr(n) == IF n < 10 THEN <<Digit(n)>>
               ELSE NatToStr(n \div 10) \o <<Digit(n % 10)>>

IntToStr(n) == IF n < 0 THEN <<"-">> \o NatToStr(-n) ELSE NatToStr(n)

(* sep.join(parts), parts a sequence of strings *)
RECURSIVE Join(_, _)
Join(sep, parts) ==
    IF Len(parts) = 0 THEN <<>>
    ELSE IF Len(parts) = 1 THEN parts[1]
    ELSE parts[1] \o sep \o Join(sep, Tail(parts))

(* a variant that leaves the case of letters alone *)
LowerCharKept(c) == c

(* str.lower() on the letters the model uses *)
LowerChar(c) ==
    CASE c = "I" -> "i" [] c = "P" -> "p" [] c = "D" -> "d" [] c = "X" -> "x"
      [] OTHER -> c

Lower(s) == [i \in 1..Len(s) |-> LowerChar(s[i])]

(* repr(v) and str(v); they differ on strings only (no quote or backslash
   occurs in the model's strings, so repr quotes with ') *)
RECURSIVE Repr(_)
Repr(v) ==
    CASE v.k = "none" -> <<"N", "o", "n", "e">>
      [] v.k = "str"  -> <<"'">> \o v.s \o <<"'">>
      [] v.k = "int"  -> IntToStr(v.n)
      [] v.k = "list" ->
           <<"[">> \o Join(<<",", " ">>,
                           [i \in 1..Len(v.items) |-> Repr(v.items[i])])
                   \o <<"]">>
      [] v.k = "dict" ->
           <<"{">> \o Join(<<",", " ">>,
                           [i \in 1..Len(v.pairs) |->
                              Repr(PyStr(v.pairs[i].key)) \o <<":", " ">>
                                \o Repr(v.pairs[i].val)])
                   \o <<"}">>
      [] v.k = "obj"  -> v.r
      [] OTHER        -> <<"<", "M", "I", "S", "P", "E", "v", "e", "n", "t", ">">>

Str(v) == IF v.k = "str" THEN v.s ELSE Repr(v)

----------------------------------------------------------------------------
(* Keys and literals of the source *)

K_value == <<"v", "a", "l", "u", "e">>
K_type == <<"t", "y", "p", "e">>
K_timestamp == <<"t", "i", "m", "e", "s", "t", "a", "m", "p">>
K_category == <<"c", "a", "t", "e", "g", "o", "r", "y">>
K_comment == <<"c", "o", "m", "m", "e", "n", "t">>
K_Tag == <<"T", "a", "g">>
K_Event == <<"E", "v", "e", "n", "t">>
K_tags == <<"t", "a", "g", "s">>
K_event == <<"e", "v", "e", "n", "t">>
K_name == <<"n", "a", "m", "e">>
K_info == <<"i", "n", "f", "o">>
K_Attribute == <<"A", "t", "t", "r", "i", "b", "u", "t", "e">>
S_unknown == <<"u", "n", "k", "n", "o", "w", "n">>
S_NA == <<"N", "/", "A">>

OUTPUT_FIELDS == {K_value, K_type, K_timestamp, K_category, K_comment, K_Tag, K_Event}

----------------------------------------------------------------------------
(* Outcomes of a call: a returned value, a raised exception, or exit()
   (SystemExit, which `except Exception` does not catch) *)

Ret(v) == [kind |-> "return", val |-> v]
Raise(type, msg) == [kind |-> "raise", exc |-> [type |-> type, msg |-> msg]]
Exit == [kind |-> "exit"]

Returned(o) == o.kind = "return"
Raised(o) == o.kind = "raise"

(* x.attr where x has no such attribute *)
NoAttribute(v, attr) ==
    Raise("AttributeError",
          <<"'", TypeName(v), "' object has no attribute '", attr, "'">>)

----------------------------------------------------------------------------
(* misp_to_json.filter_results *)

(* a variant that puts the name after the names of the later tags *)
ConsNameReversed(tag, rest) ==
    IF Raised(rest) THEN rest
    ELSE Ret(rest.val \o <<Get(tag, K_name, PyStr(Str(tag)))>>)

(* tag.get('name', str(tag)) put before the names of the later tags *)
ConsName(tag, rest) ==
    IF Raised(rest) THEN rest
    ELSE Ret(<<Get(tag, K_name, PyStr(Str(tag)))>> \o rest.val)

(* [tag.get('name', str(tag)) for tag in v] : the first element without
   .get raises *)
RECURSIVE TagNames(_)
TagNames(tags) ==
    IF Len(tags) = 0 THEN Ret(<<>>)
    ELSE IF ~IsDict(tags[1]) THEN NoAttribute(tags[1], "get")
    ELSE ConsName(tags[1], TagNames(Tail(tags)))

(* "|".join(items) : every item must be a str *)
JoinValues(items) ==
    IF \E i \in 1..Len(items) : ~IsStr(items[i])
    THEN LET bad == CHOOSE i \in 1..Len(items) :
                       /\ ~IsStr(items[i])
                       /\ \A j \in 1..(i - 1) : IsStr(items[j])
         IN  Raise("TypeError",
                   <<"sequence item ">> \o IntToStr(bad - 1)
                     \o <<": expected str instance, ", TypeName(items[bad]), " found">>)
    ELSE Ret(PyStr(Join(<<"|">>, [i \in 1..Len(items) |-> items[i].s])))

JoinNames(names) == IF Raised(names) THEN names ELSE JoinValues(names.val)

(* the 'Tag' branch: the first element's type decides how the whole list
   is handled *)
ConvertTag(v) ==
    IF IsList(v)
    THEN IF Len(v.items) > 0 /\ IsDict(v.items[1])
         THEN JoinNames(TagNames(v.items))
         ELSE Ret(PyStr(Join(<<"|">>,
                             [i \in 1..Len(v.items) |-> Str(v.items[i])])))
    ELSE Ret(IF Truthy(v) THEN PyStr(Str(v)) ELSE PyStr(<<>>))

(* the 'Event' branch *)
ConvertEvent(v) ==
    IF IsDict(v)
    THEN Get(v, K_info, PyStr(Str(v)))
    ELSE IF Truthy(v) THEN PyStr(Str(v)) ELSE PyStr(<<>>)

(* keep['tags'] = ... *)
SetTags(keep, t) == IF Raised(t) THEN t ELSE Ret(DictSet(keep, K_tags, t.val))

(* one turn of the loop over ioc.items(); an exception raised earlier
   has ended the loop *)
ProjectPair(acc, key, v) ==
    IF Raised(acc) THEN acc
    ELSE IF key \notin OUTPUT_FIELDS THEN acc
    ELSE IF key = K_Tag THEN SetTags(acc.val, ConvertTag(v))
    ELSE IF key = K_Event THEN Ret(DictSet(acc.val, K_event, ConvertEvent(v)))
    ELSE Ret(DictSet(acc.val, key, v))

(* the loop over ioc.items(), from pair i on, with `keep` so far *)
RECURSIVE ProjectFrom(_, _, _)
ProjectFrom(ioc, i, acc) ==
    IF i > Len(ioc.pairs) THEN acc
    ELSE ProjectFrom(ioc, i + 1,
                     ProjectPair(acc, ioc.pairs[i].key, ioc.pairs[i].val))

(* a variant that appends every record, valued or not *)
AppendAlways(out, keep) ==
    IF Raised(keep) THEN keep ELSE Ret(Append(out, keep.val))

(* if keep.get('value'): out.append(keep) *)
AppendIfValued(out, keep) ==
    IF Raised(keep) THEN keep
    ELSE IF Truthy(Get(keep.val, K_value, PyNone))
         THEN Ret(Append(out, keep.val))
         ELSE Ret(out)

(* one turn of the loop over iocs *)
FilterOne(acc, ioc) ==
    IF Raised(acc) THEN acc
    ELSE IF ~IsDict(ioc) THEN NoAttribute(ioc, "items")
    ELSE AppendIfValued(acc.val, ProjectFrom(ioc, 1, Ret(PyDict(<<>>))))

(* the loop over iocs, from element i on, with `out` so far *)
RECURSIVE FilterFrom(_, _, _)
FilterFrom(items, i, acc) ==
    IF i > Len(items) THEN acc
    ELSE FilterFrom(items, i + 1, FilterOne(acc, items[i]))

(* what `for ioc in iocs` iterates over; a value that is not iterable
   raises *)
Iterate(iocs) ==
    CASE iocs.k = "list" -> Ret(iocs.items)
      [] iocs.k = "dict" -> Ret([i \in 1..Len(iocs.pairs) |-> PyStr(iocs.pairs[i].key)])
      [] iocs.k = "str"  -> Ret([i \in 1..Len(iocs.s) |-> PyStr(<<iocs.s[i]>>)])
      [] OTHER -> Raise("TypeError",
                        <<"'", TypeName(iocs), "' object is not iterable">>)

(* return out *)
ReturnList(out) == IF Raised(out) THEN out ELSE Ret(PyList(out.val))

FilterItems(it) ==
    IF Raised(it) THEN it ELSE ReturnList(FilterFrom(it.val, 1, Ret(<<>>)))

filter_results(iocs) == FilterItems(Iterate(iocs))

----------------------------------------------------------------------------
(* misp_to_json.get_misp_key and get_last24h_iocs *)

(* get_misp_key: exit() when MISP_API_KEY is not set *)
get_misp_key(e) == IF e.key THEN Ret(PyStr(<<"k">>)) ELSE Exit

(* Lines 48-53: the key is read, then PyMISP is constructed; the
   constructor raises without a URL or when the instance cannot be reached,
   and the handler calls exit().  "connected" when misp is bound. *)
Connect(e, reachable) ==
    IF get_misp_key(e) = Exit THEN Exit
    ELSE IF ~e.url \/ ~reachable THEN Exit
    ELSE Ret(PyStr(<<"connected">>))

(* hasattr(event, 'attributes') *)
HasAttributes(event) == event.k = "event"

(* the loop over a list result: the attributes each event contributes *)
RECURSIVE FlattenEvents(_)
FlattenEvents(events) ==
    IF Len(events) = 0 THEN <<>>
    ELSE LET event == events[1]
             here ==
               IF HasAttributes(event) THEN event.attributes
               ELSE IF IsDict(event) /\ HasKey(event, K_Attribute)
               THEN IF IsList(Lookup(event, K_Attribute))
                    THEN Lookup(event, K_Attribute).items
                    ELSE <<Lookup(event, K_Attribute)>>
               ELSE <<>>
         IN  here \o FlattenEvents(Tail(events))

(* Lines 63-77: the three response formats *)
ShapeIocs(results) ==
    IF IsDict(results) /\ HasKey(results, K_Attribute)
    THEN Lookup(results, K_Attribute)
    ELSE IF IsList(results) THEN PyList(FlattenEvents(results.items))
    ELSE IF Truthy(results) THEN results ELSE PyList(<<>>)

UnboundIocs ==
    Raise("UnboundLocalError",
          <<"cannot access local variable 'iocs' where it is not associated with a value">>)

(* Lines 58-84, given what misp.search did.  A failed search is printed and
   `return iocs` then reads a name that was never bound.  When len(iocs)
   fails inside the try (iocs is bound by then), iocs is returned as is. *)
AfterSearch(resp) ==
    IF Raised(resp) THEN UnboundIocs ELSE Ret(ShapeIocs(resp.val))

get_last24h_iocs(e, reachable, resp) ==
    IF Connect(e, reachable) = Exit THEN Exit ELSE AfterSearch(resp)

----------------------------------------------------------------------------
(* misp_mcp_server: the tools, as functions of what get_last24h_iocs did *)

(* raise Exception(f"{prefix}{str(e)}") *)
Wrap(prefix, o) == Raise("Exception", <<prefix>> \o o.exc.msg)

(* try: ... except Exception as e: raise Exception(prefix + str(e)) *)
Reraise(prefix, o) == IF Raised(o) THEN Wrap(prefix, o) ELSE o

get_recent_iocs(raw) ==
    IF raw = Exit THEN Exit
    ELSE IF Raised(raw) THEN Wrap("Failed to retrieve IOCs: ", raw)
    ELSE IF ~Truthy(raw.val) THEN Ret(PyList(<<>>))
    ELSE Reraise("Failed to retrieve IOCs: ", filter_results(raw.val))

(* get_ioc_summary: the counting loop, with `counts` so far (a dict from
   the types seen, in first-seen order, to their counts) *)
HasCount(counts, t) == \E i \in 1..Len(counts) : counts[i].type = t

CountOf(counts, t) ==
    IF HasCount(counts, t)
    THEN counts[CHOOSE i \in 1..Len(counts) : counts[i].type = t].count
    ELSE 0

Bump(counts, t) ==
    IF HasCount(counts, t)
    THEN [i \in 1..Len(counts) |->
            IF counts[i].type = t
            THEN [type |-> t, count |-> counts[i].count + 1]
            ELSE counts[i]]
    ELSE Append(counts, [type |-> t, count |-> CountOf(counts, t) + 1])

Hashable(v) == v.k \notin {"list", "dict"}

CountOne(acc, t) ==
    IF Raised(acc) THEN acc
    ELSE IF ~Hashable(t)
    THEN Raise("TypeError", <<"unhashable type: '", TypeName(t), "'">>)
    ELSE Ret(Bump(acc.val, t))

RECURSIVE TypeCounts(_, _, _)
TypeCounts(iocs, i, acc) ==
    IF i > Len(iocs) THEN acc
    ELSE TypeCounts(iocs, i + 1,
                    CountOne(acc, Get(iocs[i], K_type, PyStr(S_unknown))))

SampleSize == 5

(* iocs[:n] *)
Prefix(xs, n) == SubSeq(xs, 1, IF Len(xs) < n THEN Len(xs) ELSE n)

SampleIocs(first) ==
    [i \in 1..Len(first) |->
       [type  |-> Get(first[i], K_type, PyStr(S_unknown)),
        value |-> Get(first[i], K_value, PyStr(S_NA)),
        event |-> Get(first[i], K_event, PyStr(<<>>))]]

SummaryOf(iocs, counts) ==
    IF Raised(counts) THEN Wrap("Failed to get IOC summary: ", counts)
    ELSE Ret([total_count |-> Len(iocs),
              type_counts |-> counts.val,
              sample_iocs |-> SampleIocs(Prefix(iocs, SampleSize)),
              message |-> <<"Found ">> \o IntToStr(Len(iocs))
                            \o <<" IOCs in last 24 hours">>])

(* the body of get_ioc_summary after iocs = get_recent_iocs() *)
Summarize(iocs) ==
    IF iocs = Exit THEN Exit
    ELSE IF Raised(iocs) THEN Wrap("Failed to get IOC summary: ", iocs)
    ELSE IF ~Truthy(iocs.val)
    THEN Ret([total_count |-> 0, type_counts |-> <<>>,
              message |-> <<"No IOCs found in last 24 hours">>])
    ELSE SummaryOf(iocs.val.items, TypeCounts(iocs.val.items, 1, Ret(<<>>)))

get_ioc_summary(raw) == Summarize(get_recent_iocs(raw))

(* ioc.get('type', '').lower() == ioc_type.lower(), t being the ioc's type *)
MatchOne(acc, ioc, t, ioc_type) ==
    IF Raised(acc) THEN acc
    ELSE IF ~IsStr(t) THEN NoAttribute(t, "lower")
    ELSE IF ~IsStr(ioc_type) THEN NoAttribute(ioc_type, "lower")
    ELSE IF Lower(t.s) = Lower(ioc_type.s) THEN Ret(Append(acc.val, ioc))
    ELSE acc

(* the list comprehension of get_iocs_by_type, from element i on *)
RECURSIVE TypeMatches(_, _, _, _)
TypeMatches(iocs, ioc_type, i, acc) ==
    IF i > Len(iocs) THEN acc
    ELSE TypeMatches(iocs, ioc_type, i + 1,
                     MatchOne(acc, iocs[i], Get(iocs[i], K_type, PyStr(<<>>)),
                              ioc_type))

(* the body of get_iocs_by_type after all_iocs = get_recent_iocs() *)
SelectType(all_iocs, ioc_type) ==
    IF all_iocs = Exit THEN Exit
    ELSE IF Raised(all_iocs) THEN Wrap("Failed to get IOCs by type: ", all_iocs)
    ELSE Reraise("Failed to get IOCs by type: ",
                 ReturnList(TypeMatches(all_iocs.val.items, ioc_type, 1, Ret(<<>>))))

get_iocs_by_type(raw, ioc_type) == SelectType(get_recent_iocs(raw), ioc_type)

----------------------------------------------------------------------------
(* json.dump(iocs, f, indent=2, default=str) and json.load: the JSON
   document written, as a tree.  A value the encoder does not know goes
   through default=str and is written as a JSON string. *)

RECURSIVE JsonDump(_)

(* a variant that writes every number as a string *)
JsonDumpNumbersAsStrings(v) ==
    CASE v.k = "none" -> [j |-> "null"]
      [] v.k = "str"  -> [j |-> "string", s |-> v.s]
      [] v.k = "list" ->
           [j |-> "array",
            items |-> [i \in 1..Len(v.items) |-> JsonDump(v.items[i])]]
      [] v.k = "dict" ->
           [j |-> "object",
            members |-> [i \in 1..Len(v.pairs) |->
                           [name |-> v.pairs[i].key,
                            value |-> JsonDump(v.pairs[i].val)]]]
      [] OTHER -> [j |-> "string", s |-> Str(v)]

JsonDump(v) ==
    CASE v.k = "none" -> [j |-> "null"]
      [] v.k = "str"  -> [j |-> "string", s |-> v.s]
      [] v.k = "int"  -> [j |-> "number", n |-> v.n]
      [] v.k = "list" ->
           [j |-> "array",
            items |-> [i \in 1..Len(v.items) |-> JsonDump(v.items[i])]]
      [] v.k = "dict" ->
           [j |-> "object",
            members |-> [i \in 1..Len(v.pairs) |->
                           [name |-> v.pairs[i].key,
                            value |-> JsonDump(v.pairs[i].val)]]]
      [] OTHER -> [j |-> "string", s |-> Str(v)]

RECURSIVE JsonLoad(_)
JsonLoad(doc) ==
    CASE doc.j = "null"   -> PyNone
      [] doc.j = "string" -> PyStr(doc.s)
      [] doc.j = "number" -> PyInt(doc.n)
      [] doc.j = "array"  ->
           PyList([i \in 1..Len(doc.items) |-> JsonLoad(doc.items[i])])
      [] OTHER ->
           PyDict([i \in 1..Len(doc.members) |->
                     Pair(doc.members[i].name, JsonLoad(doc.members[i].value))])

NoFile == [exists |-> FALSE]
File(name, doc) == [exists |-> TRUE, name |-> name, content |-> doc]

(* the generated file name, `now` being strftime('%Y%m%dT%H%M%S') *)
AutoName(now) == <<"misp_iocs_last24h_">> \o now \o <<".json">>

(* if not filename: filename = f'misp_iocs_last24h_{now}.json' *)
FileName(filename, now) == IF Truthy(filename) THEN filename.s ELSE AutoName(now)

(* the body of save_iocs_to_file after iocs = get_recent_iocs(): the status
   returned and the file written.  open() fails with OSError when the path
   is not writable. *)
SaveIocs(iocs, name, writable) ==
    IF iocs = Exit THEN [result |-> Exit, written |-> NoFile]
    ELSE IF Raised(iocs)
    THEN [result |-> Ret([status  |-> "error",
                          message |-> <<"Failed to save IOCs: ">> \o iocs.exc.msg]),
          written |-> NoFile]
    ELSE IF ~Truthy(iocs.val)
    THEN [result |-> Ret([status  |-> "error",
                          message |-> <<"No IOCs found to save">>]),
          written |-> NoFile]
    ELSE IF ~writable
    THEN [result |-> Ret([status  |-> "error",
                          message |-> <<"Failed to save IOCs: ",
                                        "[Errno 13] Permission denied: '">>
                                        \o name \o <<"'">>]),
          written |-> NoFile]
    ELSE [result |-> Ret([status   |-> "success",
                          message  |-> <<"Saved ">> \o IntToStr(Len(iocs.val.items))
                                         \o <<" IOCs to ">> \o name,
                          filename |-> name,
                          count    |-> Len(iocs.val.items)]),
          written |-> File(name, JsonDump(iocs.val))]

save_iocs_to_file(raw, filename, now, writable) ==
    SaveIocs(get_recent_iocs(raw), FileName(filename, now), writable)

----------------------------------------------------------------------------
(* Bounds and inputs *)

MaxIocs == 2
MaxTags == 2

SeqsUpTo(S, n) == UNION {[1..m -> S] : m \in 0..n}

Chars(c) == PyStr(<<c>>)
Named(c) == PyDict(<<Pair(K_name, Chars(c))>>)
K_id == <<"i", "d">>
K_uuid == <<"u", "u", "i", "d">>
T_ip == PyStr(<<"i", "p">>)
T_IP == PyStr(<<"I", "P">>)
T_d == PyStr(<<"d">>)
T_x == PyStr(<<"x">>)

(* Attribute records as the remote source returns them in a JSON response *)
RawAttrs ==
    { PyDict(<<Pair(K_value, Chars("v")), Pair(K_type, T_ip)>>),
      PyDict(<<Pair(K_uuid, Chars("u")), Pair(K_value, Chars("w")),
               Pair(K_type, T_IP), Pair(K_timestamp, PyInt(17)),
               Pair(K_Tag, PyList(<<Named("m"), Named("b")>>)),
               Pair(K_Event, PyDict(<<Pair(K_info, Chars("e"))>>))>>),
      PyDict(<<Pair(K_value, Chars("v")), Pair(K_type, T_d)>>),
      PyDict(<<Pair(K_value, Chars("w")),
               Pair(K_comment, PyList(<<PyNone, PyInt(0)>>))>>),
      PyDict(<<Pair(K_type, T_ip)>>),
      PyDict(<<Pair(K_value, Chars("v")), Pair(K_type, T_IP),
               Pair(K_Tag, PyList(<<Named("m"), Chars("b")>>))>>) }

AttrSeqs == SeqsUpTo(RawAttrs, MaxIocs)

(* a datetime, which json cannot encode *)
ADatetime == PyObj(<<"2", "0", "2", "4", "-", "0", "1", "-", "0", "1">>)

(* What attr.to_dict() returns for the attributes of an event object: the
   records above, or one holding a value that is no JSON value *)
DictedAttrs ==
    RawAttrs
    \cup {PyDict(<<Pair(K_value, Chars("v")), Pair(K_type, T_d),
                   Pair(K_timestamp, ADatetime)>>)}

Keyed(v) == PyDict(<<Pair(K_Attribute, v)>>)

(* Event-like elements of a list response *)
Events ==
    { Keyed(PyList(<<>>)),
      EventObj(<<>>),
      Chars("x") }
    \cup {Keyed(a) : a \in RawAttrs}
    \cup {Keyed(PyList(<<a>>)) : a \in RawAttrs}
    \cup {EventObj(<<a>>) : a \in DictedAttrs}

ListResults ==
    {PyList(xs) : xs \in AttrSeqs} \cup {PyList(xs) : xs \in SeqsUpTo(Events, MaxIocs)}

QueryFailures ==
    { Raise("ConnectionError", <<"Connection timed out">>),
      Raise("PyMISPError", <<"403 Forbidden">>) }

(* what misp.search('attributes', timestamp='60d') can do *)
Responses ==
    QueryFailures
    \cup {Ret(Keyed(PyList(xs))) : xs \in AttrSeqs}
    \cup {Ret(r) : r \in ListResults}
    \cup {Ret(PyNone), Ret(PyDict(<<>>)), Ret(Keyed(PyNone)),
          Ret(PyDict(<<Pair(<<"e", "r", "r", "o", "r", "s">>, PyInt(403))>>))}

TypeArgs == {T_ip, T_IP, T_x}
Filenames == {PyNone, PyStr(<<"o", "u", "t">>)}
Clock == {<<"20240101T000000">>}

Invocations ==
    {<<"get_recent_iocs", PyNone>>, <<"get_ioc_summary", PyNone>>}
    \cup {<<"get_iocs_by_type", t>> : t \in TypeArgs}
    \cup {<<"save_iocs_to_file", f>> : f \in Filenames}

----------------------------------------------------------------------------
(* The tool surface as a state machine: one invocation at a time *)

Nothing == [kind |-> "none"]

Init ==
    /\ env \in [url : BOOLEAN, key : BOOLEAN]
    /\ pc = "idle"
    /\ tool = "none"
    /\ arg = PyNone
    /\ queries = 0
    /\ response = Nothing
    /\ normalized = Nothing
    /\ result = Nothing
    /\ written = NoFile

(* the tool body after get_recent_iocs() returned, raised or exited as
   `iocs` says *)
RunTool(t, a, iocs, now, writable) ==
    CASE t = "get_recent_iocs" -> [result |-> iocs, written |-> NoFile]
      [] t = "get_ioc_summary" -> [result |-> Summarize(iocs), written |-> NoFile]
      [] t = "get_iocs_by_type" -> [result |-> SelectType(iocs, a), written |-> NoFile]
      [] OTHER -> SaveIocs(iocs, FileName(a, now), writable)

(* a variant that queries again when the tool body raised *)
EndPcRetry(r) ==
    IF r = Exit THEN "exited" ELSE IF Raised(r) THEN "query" ELSE "done"

(* where control is once the tool body has run: exit() ends the process *)
EndPc(r) == IF r = Exit THEN "exited" ELSE "done"

Finish(iocs, run) ==
    /\ normalized' = iocs
    /\ result' = run.result
    /\ written' = run.written
    /\ pc' = EndPc(run.result)

Invoke(t, a) ==
    /\ pc = "idle"
    /\ pc' = "connect"
    /\ tool' = t
    /\ arg' = a
    /\ UNCHANGED <<env, queries, response, normalized, result, written>>

(* lines 48-53 of get_last24h_iocs; exit() passes through every handler *)
ConnectStep(reachable) ==
    /\ pc = "connect"
    /\ IF Connect(env, reachable) = Exit
       THEN Finish(get_recent_iocs(Exit),
                   RunTool(tool, arg, get_recent_iocs(Exit), <<>>, TRUE))
       ELSE /\ pc' = "query"
            /\ UNCHANGED <<result, written, normalized>>
    /\ UNCHANGED <<env, tool, arg, queries, response>>

(* lines 58-84 of get_last24h_iocs: the one search, then the rest of
   get_recent_iocs and of the tool *)
RunQuery(iocs, now, writable) ==
    Finish(iocs, RunTool(tool, arg, iocs, now, writable))

QueryStep(resp, now, writable) ==
    /\ pc = "query"
    /\ queries' = queries + 1
    /\ response' = resp
    /\ RunQuery(get_recent_iocs(AfterSearch(resp)), now, writable)
    /\ UNCHANGED <<env, tool, arg>>

(* the result is delivered; nothing is kept for the next invocation *)
Return ==
    /\ pc = "done"
    /\ pc' = "idle"
    /\ tool' = "none"
    /\ arg' = PyNone
    /\ queries' = 0
    /\ response' = Nothing
    /\ normalized' = Nothing
    /\ result' = Nothing
    /\ written' = NoFile
    /\ UNCHANGED env

Next ==
    \/ \E inv \in Invocations : Invoke(inv[1], inv[2])
    \/ \E reachable \in BOOLEAN : ConnectStep(reachable)
    \/ \E resp \in Responses, now \in Clock, writable \in BOOLEAN :
         QueryStep(resp, now, writable)
    \/ Return

Spec == Init /\ [][Next]_vars

----------------------------------------------------------------------------
(* filter_results called on its own (as main() does), over records that
   vary the shapes of value, Tag and Event *)

Absent == [k |-> "absent"]

(* a record's item for key, when the record has the key *)
Field(key, v) == IF v = Absent THEN <<>> ELSE <<Pair(key, v)>>

TagElements ==
    { Named("m"), Named("b"), Chars("m"), Chars("b"),
      PyDict(<<Pair(K_name, PyInt(5))>>),
      PyDict(<<Pair(K_id, PyInt(1))>>),
      PyInt(7) }

TagShapes ==
    {PyList(xs) : xs \in SeqsUpTo(TagElements, MaxTags)}
    \cup {Absent, PyNone, Chars("s"), Named("m")}

EventShapes ==
    { Absent, PyNone, Chars("e"), PyList(<<>>), PyInt(3),
      PyDict(<<Pair(K_info, Chars("e"))>>),
      PyDict(<<Pair(K_info, PyInt(5))>>),
      PyDict(<<Pair(K_id, PyInt(1))>>) }

ValueShapes == {Absent, PyNone, PyStr(<<>>), PyInt(0), Chars("v")}

ShapedAttrs ==
    { PyDict(Field(K_value, v) \o Field(K_Tag, t) \o Field(K_Event, e)) :
        v \in ValueShapes, t \in TagShapes, e \in EventShapes }

MoreAttrs ==
    { PyDict(<<Pair(K_value, PyStr(<<>>)), Pair(K_type, T_ip)>>),
      PyDict(<<Pair(K_type, T_d), Pair(K_value, PyNone)>>),
      PyDict(<<Pair(K_Tag, PyList(<<Chars("b"), Chars("m")>>)),
               Pair(K_value, Chars("w"))>>) }

FilterInputs ==
    {<<a>> : a \in ShapedAttrs} \cup SeqsUpTo(DictedAttrs \cup MoreAttrs, MaxIocs)

FilterInit == Init /\ env = [url |-> TRUE, key |-> TRUE]

CallFilter(iocs) ==
    /\ pc = "idle"
    /\ pc' = "done"
    /\ tool' = "filter_results"
    /\ arg' = PyList(iocs)
    /\ result' = filter_results(PyList(iocs))
    /\ UNCHANGED <<env, queries, response, normalized, written>>

FilterNext ==
    \/ \E iocs \in FilterInputs : CallFilter(iocs)
    \/ Return

FilterSpec == FilterInit /\ [][FilterNext]_vars

----------------------------------------------------------------------------
(* Properties *)

Finished == pc \in {"done", "exited"}
FilterDone == pc = "done" /\ tool = "filter_results"

ValueOf(r) == Get(r, K_value, PyNone)
Valued(r) == Truthy(ValueOf(r))
Values(rs) == [i \in 1..Len(rs) |-> ValueOf(rs[i])]

(* C1: every record filter_results returns has a truthy value, and the
   records returned are, in order, those of the input records whose value
   is truthy: an input record whose value is absent or falsy has no record
   in the output. *)
C1_OnlyValuedRecords ==
    (FilterDone /\ Returned(result)) =>
        /\ \A i \in 1..Len(result.val.items) :
              /\ HasKey(result.val.items[i], K_value)
              /\ Truthy(Lookup(result.val.items[i], K_value))
        /\ Values(result.val.items) = Values(SelectSeq(arg.items, Valued))

C1_Witness ==
    /\ FilterDone /\ Returned(result)
    /\ Len(arg.items) = 2
    /\ ~Valued(arg.items[1]) /\ Valued(arg.items[2])
    /\ Len(result.val.items) = 1

(* C2: in every record filter_results returns, tags and event are
   strings, whatever the shape of the source Tag and Event.  A field the
   record lacks is read as the empty string, the way the consumers read it
   (ioc.get('event', '')). *)
C2_TagsAndEventAreStrings ==
    (FilterDone /\ Returned(result)) =>
        \A i \in 1..Len(result.val.items) :
            /\ IsStr(Get(result.val.items[i], K_tags, PyStr(<<>>)))
            /\ IsStr(Get(result.val.items[i], K_event, PyStr(<<>>)))

AllNamed(tag) ==
    /\ IsList(tag)
    /\ \A i \in 1..Len(tag.items) :
          IsDict(tag.items[i]) /\ HasKey(tag.items[i], K_name)

AllStrings(tag) ==
    /\ IsList(tag)
    /\ \A i \in 1..Len(tag.items) : IsStr(tag.items[i])

Piped(parts) == PyStr(Join(<<"|">>, parts))

ExpectedTags(tag) ==
    IF AllStrings(tag)
    THEN Piped([i \in 1..Len(tag.items) |-> tag.items[i].s])
    ELSE Piped([i \in 1..Len(tag.items) |-> Lookup(tag.items[i], K_name).s])

(* C3: for every raw record filter_results keeps whose Tag is a list of
   mappings that all contain name, or a list of plain strings, the
   normalized tags is those names (those strings) joined by | in their
   original order. *)
C3_TagsJoinedInOrder ==
    (FilterDone /\ Returned(result)) =>
        LET kept == SelectSeq(arg.items, Valued)
        IN  \A i \in 1..Len(kept) :
               (/\ HasKey(kept[i], K_Tag)
                /\ AllNamed(Lookup(kept[i], K_Tag)) \/ AllStrings(Lookup(kept[i], K_Tag)))
               => /\ i <= Len(result.val.items)
                  /\ Get(result.val.items[i], K_tags, PyNone)
                       = ExpectedTags(Lookup(kept[i], K_Tag))

C3_Witness ==
    /\ FilterDone /\ Returned(result)
    /\ Len(result.val.items) = 2
    /\ HasKey(arg.items[1], K_Tag)
    /\ AllNamed(Lookup(arg.items[1], K_Tag))
    /\ Get(result.val.items[1], K_tags, PyNone) = PyStr(<<"m", "|", "b">>)
    /\ HasKey(arg.items[2], K_Tag)
    /\ AllStrings(Lookup(arg.items[2], K_Tag))
    /\ Get(result.val.items[2], K_tags, PyNone) = PyStr(<<"b", "|", "m">>)

IsKeyedList(v) ==
    IsDict(v) /\ HasKey(v, K_Attribute) /\ IsList(Lookup(v, K_Attribute))

(* C4: when the search returns {"Attribute": L}, get_recent_iocs yields
   what it yields when the search returns the bare list L. *)
C4_KeyedAndBareAgree ==
    (/\ pc = "done" /\ tool = "get_recent_iocs"
     /\ Returned(response) /\ IsKeyedList(response.val))
    => result = get_recent_iocs(
                  get_last24h_iocs(env, TRUE, Ret(Lookup(response.val, K_Attribute))))

(* d occurs in msg *)
Carries(msg, d) ==
    \E i \in 1..(Len(msg) - Len(d) + 1) : SubSeq(msg, i, i + Len(d) - 1) = d

(* C5: a failed search ends get_recent_iocs in an error that carries the
   description of the upstream failure, and a search that succeeds with no
   records returns the empty sequence. *)
C5_FailureCarriesDescription ==
    (pc = "done" /\ tool = "get_recent_iocs") =>
        /\ Raised(response) =>
              Raised(result) /\ Carries(result.exc.msg, response.exc.msg)
        /\ (Returned(response) /\ response.val = Keyed(PyList(<<>>))) =>
              result = Ret(PyList(<<>>))

(* C6: save_iocs_to_file never raises or exits: it always returns a status
   object whose status is "success" or "error". *)
C6_SaveAlwaysReturnsStatus ==
    (Finished /\ tool = "save_iocs_to_file") =>
        Returned(result) /\ result.val.status \in {"success", "error"}

(* C7: filter_results is total over sequences of raw attribute mappings:
   it returns a sequence of records and never fails with an error. *)
C7_FilterIsTotal ==
    FilterDone => Returned(result) /\ IsList(result.val)

SwapCase(c) ==
    CASE c = "i" -> "I" [] c = "I" -> "i" [] c = "p" -> "P" [] c = "P" -> "p"
      [] c = "d" -> "D" [] c = "D" -> "d" [] c = "x" -> "X" [] c = "X" -> "x"
      [] OTHER -> c

SameIgnoringCase(a, b) ==
    /\ Len(a) = Len(b)
    /\ \A i \in 1..Len(a) : a[i] = b[i] \/ SwapCase(a[i]) = b[i]

TypeIsArg(ioc) == SameIgnoringCase(Get(ioc, K_type, PyStr(<<>>)).s, arg.s)

(* C8: get_iocs_by_type returns exactly the records whose type equals the
   argument ignoring case (none of them: the empty sequence, no error), and
   the same result for every argument differing only in letter case. *)
C8_TypeFilterIgnoresCase ==
    (pc = "done" /\ tool = "get_iocs_by_type" /\ Returned(normalized)) =>
        /\ result = Ret(PyList(SelectSeq(normalized.val.items, TypeIsArg)))
        /\ \A t \in TypeArgs :
              SameIgnoringCase(arg.s, t.s) => SelectType(normalized, t) = result

C8_Witness ==
    /\ pc = "done" /\ tool = "get_iocs_by_type" /\ Returned(normalized)
    /\ arg = T_IP
    /\ Returned(result)
    /\ Len(result.val.items) = 1
    /\ Lookup(result.val.items[1], K_type) = T_ip
    /\ Len(normalized.val.items) = 2

Saved == pc = "done" /\ tool = "save_iocs_to_file" /\ written # NoFile

(* C9 as stated: reading the written file back yields the sequence that
   was saved. *)
C9_RoundTripIsExact ==
    Saved => JsonLoad(written.content) = normalized.val

(* a value with everything json cannot encode replaced by its str() *)
RECURSIVE Coerced(_)
Coerced(v) ==
    CASE v.k \in {"none", "str", "int"} -> v
      [] v.k = "list" -> PyList([i \in 1..Len(v.items) |-> Coerced(v.items[i])])
      [] v.k = "dict" ->
           PyDict([i \in 1..Len(v.pairs) |->
                     Pair(v.pairs[i].key, Coerced(v.pairs[i].val))])
      [] OTHER -> PyStr(Str(v))

RECURSIVE JsonNative(_)
JsonNative(v) ==
    CASE v.k \in {"none", "str", "int"} -> TRUE
      [] v.k = "list" -> \A i \in 1..Len(v.items) : JsonNative(v.items[i])
      [] v.k = "dict" -> \A i \in 1..Len(v.pairs) : JsonNative(v.pairs[i].val)
      [] OTHER -> FALSE

(* C9 amended: reading the written file back yields the saved sequence
   with every value json cannot encode replaced by its string form; it is
   the saved sequence itself when every field value is a string, a number,
   null, a list or a mapping of such values. *)
C9_RoundTripUpToCoercion ==
    Saved =>
        /\ result.val.status = "success"
        /\ result.val.count = Len(normalized.val.items)
        /\ JsonLoad(written.content) = Coerced(normalized.val)
        /\ JsonNative(normalized.val) => JsonLoad(written.content) = normalized.val

C9_Witness ==
    /\ Saved
    /\ Len(normalized.val.items) = 2
    /\ JsonNative(normalized.val.items[1])
    /\ HasKey(normalized.val.items[1], K_timestamp)
    /\ ~JsonNative(normalized.val.items[2])

(* C10: an invocation issues at most one search, and once a search has
   failed the invocation is over with that one search issued. *)
C10_AtMostOneQuery ==
    /\ queries <= 1
    /\ Raised(response) => (pc = "done" /\ queries = 1)
    /\ Finished => (queries = 1 <=> response # Nothing)

C10_Witness ==
    /\ pc = "done" /\ queries = 1 /\ Raised(response)
    /\ tool = "get_ioc_summary"

====
